---- MODULE Spec2Model ----
(***************************************************************************)
(* norse-physical-device: processor topology discovery                     *)
(* (src/src/properties.rs).                                                *)
(*                                                                         *)
(* A u32 is modelled with its full width, as its four little-endian bytes  *)
(* <<b0, b1, b2, b3>> (the layout std::mem::transmute::<u32, [u8; 4]>      *)
(* exposes on x86_64).  Arithmetic is done limb by limb, so that overflow, *)
(* wrap-around and shifts behave as they do on the 32-bit type.            *)
(*                                                                         *)
(* `debug` is the build profile: TRUE when overflow checks are compiled in *)
(* (arithmetic overflow panics), FALSE when they are not (it wraps, and    *)
(* shift amounts are masked to the type's width).                          *)
(***************************************************************************)
EXTENDS Integers, Sequences, FiniteSets, TLC

VARIABLES
    windows,        \* cfg(target_os = "windows")
    debug,          \* overflow checks compiled in
    pc,             \* position inside system()
    status,         \* "running", "returned", or the panic that ended the call
    queries,        \* identification queries issued so far, with their results
    vendor,         \* Vendor
    device,         \* String, as a sequence of char codes
    i,              \* loop counter of the name loop / the leaf-4 walk
    l1_cache_data,
    l1_cache_instruction,
    l2_cache,
    l3_cache,
    logical_cores,
    physical_cores,
    length,         \* DWORD length of the two-phase OS query
    num_infos,      \* length / info_size
    written,        \* records the populating call initialised
    infos,          \* Vec<SYSTEM_LOGICAL_PROCESSOR_INFORMATION>
    bits_in,        \* arguments of a direct call of extract_bits
    bits_out        \* its result

vars == <<windows, debug, pc, status, queries, vendor, device, i,
          l1_cache_data, l1_cache_instruction, l2_cache, l3_cache,
          logical_cores, physical_cores, length, num_infos, written, infos,
          bits_in, bits_out>>

-----------------------------------------------------------------------------
(* 32-bit unsigned arithmetic on little-endian byte limbs                  *)

Pow2(n) == 2 ^ n

\* the u32 whose value is n, for n < 2^31
U(n) == << n % 256, (n \div 256) % 256, (n \div 65536) % 256, (n \div 16777216) % 256 >>

Zero32 == U(0)

\* bit j (0 = least significant) of a byte sequence
BitOf(v, j) == (v[(j \div 8) + 1] \div Pow2(j % 8)) % 2

RECURSIVE AndByte(_, _, _)
AndByte(x, y, n) ==
    IF n = 0 THEN 0
    ELSE (x % 2) * (y % 2) + 2 * AndByte(x \div 2, y \div 2, n - 1)

\* a & b
And32(a, b) == [k \in 1..4 |-> AndByte(a[k], b[k], 8)]

\* v >> s, for 0 <= s < 32
Shr32(v, s) ==
    LET q == s \div 8
        r == s % 8
        at(k) == IF k <= 4 THEN v[k] ELSE 0
    IN  [k \in 1..4 |-> (at(k + q) \div Pow2(r)) + (at(k + q + 1) % Pow2(r)) * Pow2(8 - r)]

\* 1 << n, for 0 <= n < 32
ShlOne32(n) == [k \in 1..4 |-> IF k = (n \div 8) + 1 THEN Pow2(n % 8) ELSE 0]

\* v - 1 modulo 2^32
SubOne32(v) ==
    [k \in 1..4 |->
        IF \A m \in 1..(k - 1) : v[m] = 0 THEN (v[k] + 255) % 256 ELSE v[k]]

\* column sums of the schoolbook product, carries included
RECURSIVE MulColumn(_, _, _)
MulColumn(a, b, k) ==
    IF k = 0 THEN 0
    ELSE LET term(m) == IF (k + 1 - m) \in 1..4 THEN a[m] * b[k + 1 - m] ELSE 0
         IN  term(1) + term(2) + term(3) + term(4) + (MulColumn(a, b, k - 1) \div 256)

\* the exact product of two u32, as eight bytes
MulWide(a, b) == [k \in 1..8 |-> MulColumn(a, b, k) % 256]

RECURSIVE AddColumn(_, _, _)
AddColumn(a, b, k) ==
    IF k = 0 THEN 0
    ELSE (IF k <= 4 THEN a[k] + b[k] ELSE 0) + (AddColumn(a, b, k - 1) \div 256)

\* the exact sum of two u32, as five bytes
AddWide(a, b) == [k \in 1..5 |-> AddColumn(a, b, k) % 256]

Low32(w) == [k \in 1..4 |-> w[k]]

Fits32(w) == \A k \in 5..Len(w) : w[k] = 0

\* a * b and a + b on u32: the wrapped value, and whether it overflowed
Mul32(a, b) == [val |-> Low32(MulWide(a, b)), overflow |-> ~Fits32(MulWide(a, b))]

Add32(a, b) == [val |-> Low32(AddWide(a, b)), overflow |-> ~Fits32(AddWide(a, b))]

\* remainder carried into limb k of the long division of v by d
RECURSIVE DivRem(_, _, _)
DivRem(v, d, k) ==
    IF k > Len(v) THEN 0 ELSE (DivRem(v, d, k + 1) * 256 + v[k]) % d

\* v / d on byte limbs, for a divisor 0 < d < 2^23
DivLimbs(v, d) == [k \in 1..Len(v) |-> (DivRem(v, d, k + 1) * 256 + v[k]) \div d]

\* u32 / u32, the divisor a small count
Div32(v, d) == DivLimbs(v, d)

-----------------------------------------------------------------------------
(* extract_bits                                                            *)

Panic == [panic |-> TRUE, val |-> Zero32]

Value(v) == [panic |-> FALSE, val |-> v]

\* fn extract_bits(v: u32, bits: Range<u8>) -> u32
extract_bits(v, start, end) ==
    LET underflow == end < start
        num_bits  == IF underflow THEN end - start + 256 ELSE end - start
        shl_over  == num_bits >= 32
        mask      == SubOne32(ShlOne32(num_bits % 32))
        shr_over  == start >= 32
    IN  IF debug /\ (underflow \/ shl_over \/ shr_over)
        THEN Panic
        ELSE Value(And32(Shr32(v, start % 32), mask))

\* the value of a call whose range is one of the fixed ranges of system()
Bits(v, start, end) == extract_bits(v, start, end).val

-----------------------------------------------------------------------------
(* Data model                                                              *)

\* PhysicalDeviceCacheProperties
Cache(size, line_size) == [size |-> size, line_size |-> line_size]

\* a Default that presets a 64-byte line
DefaultCacheLine64 == Cache(Zero32, U(64))

\* impl Default for PhysicalDeviceCacheProperties
DefaultCache == Cache(Zero32, Zero32)

\* the four result registers of one identification query
Regs(a, b, c, d) == [eax |-> a, ebx |-> b, ecx |-> c, edx |-> d]

Query(leaf, sub, res) == [leaf |-> leaf, sub |-> sub, res |-> res]

Leaf0 == U(0)

Leaf4 == U(4)

LeafExtBase == <<0, 0, 0, 128>>

LeafAmdL1 == <<5, 0, 0, 128>>

LeafAmdL2L3 == <<6, 0, 0, 128>>

-----------------------------------------------------------------------------
(* Vendor identifier and device name                                       *)

AuthenticAMD == <<65, 117, 116, 104, 101, 110, 116, 105, 99, 65, 77, 68>>

GenuineIntel == <<71, 101, 110, 117, 105, 110, 101, 73, 110, 116, 101, 108>>

\* the registers taken in their numeric order ebx, ecx, edx
BrandInRegisterOrder(cpuid) == cpuid.ebx \o cpuid.ecx \o cpuid.edx

\* data[0..4] <- ebx, data[4..8] <- edx, data[8..12] <- ecx, each as the
\* register's bytes in memory order
Brand(cpuid) == cpuid.ebx \o cpuid.edx \o cpuid.ecx

\* fn system_cpuid_vendor() -> Vendor, on the result of leaf 0
system_cpuid_vendor(cpuid) ==
    IF Brand(cpuid) = AuthenticAMD THEN "AMD"
    ELSE IF Brand(cpuid) = GenuineIntel THEN "Intel"
    ELSE "Unknown"

\* let extract = |v: u32| -> [char; 4]
ExtractChars(v) ==
    [k \in 1..4 |-> And32(Shr32(v, 8 * (k - 1)), U(255))[1]]

\* the sixteen characters of one name leaf, in iteration order
NameChars(raw) ==
    ExtractChars(raw.eax) \o ExtractChars(raw.ebx)
        \o ExtractChars(raw.ecx) \o ExtractChars(raw.edx)

HasNull(s) == \E k \in 1..Len(s) : s[k] = 0

\* the characters pushed before `break 'name`
RECURSIVE UpToNull(_)
UpToNull(s) ==
    IF s = << >> \/ s[1] = 0 THEN << >> ELSE <<s[1]>> \o UpToNull(Tail(s))

\* char::is_whitespace on the chars a u8 can produce
IsWhitespace(c) == c \in {9, 10, 11, 12, 13, 32, 133, 160}

\* str::trim_end
RECURSIVE TrimEnd(_)
TrimEnd(s) ==
    IF s # << >> /\ IsWhitespace(s[Len(s)])
    THEN TrimEnd(SubSeq(s, 1, Len(s) - 1))
    ELSE s

-----------------------------------------------------------------------------
(* Vendor-specific cache decoders                                          *)

\* the data record decoded from the instruction register
AmdL1DataFromEdx(r) ==
    LET size == Mul32(Bits(r.edx, 24, 32), U(1024))
    IN  [overflow |-> size.overflow,
         cache |-> Cache(size.val, Bits(r.edx, 0, 8))]

\* size: extract_bits(l1_cache.ecx, 24..32) * 1024 and its line size
AmdL1Data(r) ==
    LET size == Mul32(Bits(r.ecx, 24, 32), U(1024))
    IN  [overflow |-> size.overflow,
         cache |-> Cache(size.val, Bits(r.ecx, 0, 8))]

AmdL1Instruction(r) ==
    LET size == Mul32(Bits(r.edx, 24, 32), U(1024))
    IN  [overflow |-> size.overflow,
         cache |-> Cache(size.val, Bits(r.edx, 0, 8))]

AmdL2(r) ==
    LET size == Mul32(Bits(r.ecx, 16, 32), U(1024))
    IN  [overflow |-> size.overflow,
         cache |-> Cache(size.val, Bits(r.ecx, 0, 8))]

AmdL3(r) ==
    LET half == Mul32(Bits(r.edx, 18, 32), U(512))
        size == Mul32(half.val, U(1024))
    IN  [overflow |-> half.overflow \/ size.overflow,
         cache |-> Cache(size.val, Bits(r.edx, 0, 8))]

\* the type code read together with the level bits
IntelTypeWithLevel(r) == Bits(r.eax, 0, 8)

IntelType(r) == Bits(r.eax, 0, 5)

IntelLevel(r) == Bits(r.eax, 5, 8)

\* the size computed with wrapping arithmetic in every build
IntelPropertiesWrapping(r) ==
    LET line_size == Add32(Bits(r.ebx, 0, 12), U(1)).val
        partitions == Add32(Bits(r.ebx, 12, 22), U(1)).val
        associativity == Add32(Bits(r.ebx, 22, 32), U(1)).val
        num_sets == Add32(r.ecx, U(1)).val
    IN  [overflow |-> FALSE,
         cache |-> Cache(Mul32(Mul32(Mul32(line_size, partitions).val,
                                     associativity).val, num_sets).val,
                         line_size)]

\* the PhysicalDeviceCacheProperties of one leaf-4 entry
IntelProperties(r) ==
    LET line_size     == Add32(Bits(r.ebx, 0, 12), U(1))
        partitions    == Add32(Bits(r.ebx, 12, 22), U(1))
        associativity == Add32(Bits(r.ebx, 22, 32), U(1))
        num_sets      == Add32(r.ecx, U(1))
        p1            == Mul32(line_size.val, partitions.val)
        p2            == Mul32(p1.val, associativity.val)
        p3            == Mul32(p2.val, num_sets.val)
    IN  [overflow |-> \/ line_size.overflow \/ partitions.overflow
                      \/ associativity.overflow \/ num_sets.overflow
                      \/ p1.overflow \/ p2.overflow \/ p3.overflow,
         cache |-> Cache(p3.val, line_size.val)]

\* a dispatch on the type alone for data and instruction caches
IntelSlotIgnoringLevel(ty, level) ==
    IF      ty = U(1) THEN "l1_cache_data"
    ELSE IF ty = U(2) THEN "l1_cache_instruction"
    ELSE IF ty = U(3) /\ level = U(2) THEN "l2_cache"
    ELSE IF ty = U(3) /\ level = U(3) THEN "l3_cache"
    ELSE "continue"

\* match (ty, level): the slot an entry is written to
IntelSlot(ty, level) ==
    IF      ty = U(1) /\ level = U(1) THEN "l1_cache_data"
    ELSE IF ty = U(2) /\ level = U(1) THEN "l1_cache_instruction"
    ELSE IF ty = U(3) /\ level = U(2) THEN "l2_cache"
    ELSE IF ty = U(3) /\ level = U(3) THEN "l3_cache"
    ELSE "continue"

-----------------------------------------------------------------------------
(* OS topology normalizer                                                  *)

InfoSize == 32

Core == [Relationship |-> "RelationProcessorCore"]

Package(mask) == [Relationship |-> "RelationProcessorPackage", ProcessorMask |-> mask]

CacheInfo(level, type, size, line_size) ==
    [Relationship |-> "RelationCache", Level |-> level, Type |-> type,
     Size |-> size, LineSize |-> line_size]

Numa == [Relationship |-> "RelationNumaNode"]

\* u64::count_ones
RECURSIVE CountOnes(_)
CountOnes(m) == IF m = 0 THEN 0 ELSE (m % 2) + CountOnes(m \div 2)

\* match (cache.Level, cache.Type)
WinSlot(level, type) ==
    IF      level = 1 /\ type = "CacheInstruction" THEN "l1_cache_instruction"
    ELSE IF level = 1 /\ type = "CacheData"        THEN "l1_cache_data"
    ELSE IF level = 2 /\ type = "CacheUnified"     THEN "l2_cache"
    ELSE IF level = 3 /\ type = "CacheUnified"     THEN "l3_cache"
    ELSE "continue"

Accumulators0 ==
    [logical_cores |-> 0, physical_cores |-> 0, overflow |-> FALSE,
     l1_cache_instruction |-> DefaultCache, l1_cache_data |-> DefaultCache,
     l2_cache |-> DefaultCache, l3_cache |-> DefaultCache]

\* cache.size += properties.size; cache.line_size = properties.line_size
Accumulate(cache, info) ==
    Cache(Add32(cache.size, info.Size).val, info.LineSize)

\* one iteration of `for info in infos`
WalkStep(acc, info) ==
    IF info.Relationship = "RelationProcessorCore"
    THEN [acc EXCEPT !.physical_cores = @ + 1]
    ELSE IF info.Relationship = "RelationProcessorPackage"
    THEN [acc EXCEPT !.logical_cores = @ + CountOnes(info.ProcessorMask)]
    ELSE IF info.Relationship = "RelationCache"
    THEN LET slot == WinSlot(info.Level, info.Type)
         IN  IF slot = "continue" THEN acc
             ELSE [acc EXCEPT ![slot] = Accumulate(@, info),
                              !.overflow = @ \/ Add32(acc[slot].size, info.Size).overflow]
    ELSE acc

\* the whole loop over the first n records
RECURSIVE Walk(_, _)
Walk(recs, n) ==
    IF n = 0 THEN Accumulators0 ELSE WalkStep(Walk(recs, n - 1), recs[n])

\* cache.size /= physical_cores
PerCore(cache, cores) == Cache(Div32(cache.size, cores), cache.line_size)

-----------------------------------------------------------------------------
(* Bounds and the results the hardware and the OS may give                 *)

\* sub-leaf index at which the leaf-4 enumeration is sure to have ended
MaxSubLeaf == 3

\* most records the OS topology service reports
MaxInfos == 4

Leaf0Results ==
    { Regs(U(13), U(1970169159), U(1818588270), U(1231384169)),  \* GenuineIntel
      Regs(U(13), U(1752462657), U(1145913699), U(1769238117)),  \* AuthenticAMD
      Regs(U(13), U(1970169159), U(1231384169), U(1818588270)),  \* ecx and edx exchanged
      Regs(U(1752462657), U(1769238117), U(1145913699), U(0)),   \* one register too early
      Regs(U(13), U(1197829749), U(1853121900), U(1768842569)),  \* bytes reversed
      Regs(U(0), U(0), U(0), U(0)) }

NameResults ==
    { Regs(U(541347137), U(1702525266), U(540483694), U(538976288)),   \* "AMD Ryzen 7     "
      Regs(U(1129926725), U(538976288), U(5787680), U(1702525266)),    \* "EPYC      PX", NUL, "Ryze"
      Regs(U(0), U(0), U(0), U(0)) }

AmdL1Results ==
    { Regs(U(0), U(0), U(536870976), U(268435488)),   \* ecx = 0x20 << 24 | 0x40, edx = 0x10 << 24 | 0x20
      Regs(U(0), U(0), U(64), <<64, 1, 1, 255>>),     \* no data size, 255 KiB instruction
      Regs(U(0), U(0), U(0), U(0)) }

AmdL2L3Results ==
    { Regs(U(0), U(0), U(33579072), U(4194368)),       \* 512 KiB L2, 8 MiB L3
      Regs(U(0), U(0), <<64, 97, 255, 255>>, <<64, 0, 0, 128>>),  \* L3 field 0x2000
      Regs(U(0), U(0), U(0), U(0)) }

Leaf4Terminators ==
    { Regs(U(0), U(0), U(0), U(0)),
      Regs(U(96), U(29360191), U(63), U(0)) }          \* type 0, the other fields set

Leaf4Entries ==
    { Regs(U(469778721), U(29360191), U(63), U(0)),    \* (1,1) 64 x 1 x 8 x 64
      Regs(U(469778722), U(29360191), U(63), U(0)),    \* (2,1)
      Regs(U(469778755), U(12582975), U(1023), U(0)),  \* (3,2) 64 x 1 x 4 x 1024
      Regs(U(470008163), U(62914623), U(8191), U(6)),  \* (3,3) 64 x 1 x 16 x 8192
      Regs(U(65), U(4194335), U(127), U(0)),           \* (1,2): no slot
      Regs(U(33), <<255, 255, 255, 255>>, U(0), U(0)), \* (1,1) 4096 x 1024 x 1024 x 1
      Regs(U(99), U(63), <<255, 255, 255, 255>>, U(0)) }  \* (3,3) with ecx = u32::MAX

Leaf4Results == Leaf4Terminators \cup Leaf4Entries

WinRecords ==
    { Core,
      Package(15),
      CacheInfo(1, "CacheInstruction", U(32768), U(64)),
      CacheInfo(1, "CacheData", U(49152), U(32)),
      CacheInfo(2, "CacheUnified", U(524288), U(64)),
      CacheInfo(3, "CacheUnified", <<0, 0, 0, 128>>, U(64)),
      CacheInfo(1, "CacheTrace", U(4096), U(64)),
      Numa }

\* what memory the populating call did not write may hold
UninitRecords == { Core, CacheInfo(3, "CacheUnified", <<0, 0, 0, 128>>, U(64)) }

WinLengths == { n * InfoSize : n \in 0..MaxInfos } \cup { InfoSize + 8 }

\* what num_cpus::get() and num_cpus::get_physical() may return
CoreCounts == {1, 8}

RECURSIVE SeqsOf(_, _)
SeqsOf(S, n) ==
    IF n = 0 THEN { << >> }
    ELSE { Append(q, x) : q \in SeqsOf(S, n - 1), x \in S }

-----------------------------------------------------------------------------
(* The discovery operation system()                                        *)

Idle ==
    /\ status = "running"
    /\ queries = << >>
    /\ vendor = "Unknown"
    /\ device = << >>
    /\ i = 0
    /\ l1_cache_data = DefaultCache
    /\ l1_cache_instruction = DefaultCache
    /\ l2_cache = DefaultCache
    /\ l3_cache = DefaultCache
    /\ logical_cores = 0
    /\ physical_cores = 0
    /\ length = 0
    /\ num_infos = 0
    /\ written = 0
    /\ infos = << >>

NoCall == [called |-> FALSE, panic |-> FALSE, val |-> Zero32]

Init ==
    /\ windows \in BOOLEAN
    /\ debug \in BOOLEAN
    /\ pc = IF windows THEN "win_size" ELSE "vendor"
    /\ Idle
    /\ bits_in = [v |-> Zero32, start |-> 0, end |-> 1]
    /\ bits_out = NoCall

\* where system() goes on once vendor and device are known
AfterVendor == IF windows THEN "return" ELSE "match"

\* let vendor = Self::system_cpuid_vendor(), and the match on it that
\* starts the device name
CpuidVendor ==
    /\ pc = "vendor"
    /\ status = "running"
    /\ \E cpuid \in Leaf0Results :
          /\ queries' = Append(queries, Query(Leaf0, 0, cpuid))
          /\ vendor' = system_cpuid_vendor(cpuid)
    /\ device' = << >>
    /\ IF vendor' = "AMD"
       THEN pc' = "name" /\ i' = 2
       ELSE pc' = AfterVendor /\ i' = 0
    /\ UNCHANGED <<windows, debug, status, l1_cache_data, l1_cache_instruction,
                   l2_cache, l3_cache, logical_cores, physical_cores, length,
                   num_infos, written, infos, bits_in, bits_out>>

\* one iteration of 'name: for i in 2..=4, and name.trim_end() after the
\* last one
NameLeaf ==
    /\ pc = "name"
    /\ status = "running"
    /\ \E raw \in NameResults :
          LET chars == NameChars(raw)
              name  == device \o UpToNull(chars)
          IN  /\ queries' = Append(queries, Query(Add32(LeafExtBase, U(i)).val, 0, raw))
              /\ IF HasNull(chars) \/ i = 4
                 THEN device' = TrimEnd(name) /\ pc' = AfterVendor /\ i' = 0
                 ELSE device' = name /\ pc' = "name" /\ i' = i + 1
    /\ UNCHANGED <<windows, debug, status, vendor, l1_cache_data,
                   l1_cache_instruction, l2_cache, l3_cache, logical_cores,
                   physical_cores, length, num_infos, written, infos, bits_in,
                   bits_out>>

\* Vendor::AMD arm, leaf 0x80000005
AmdL1 ==
    /\ pc = "match"
    /\ vendor = "AMD"
    /\ status = "running"
    /\ \E l1_cache \in AmdL1Results :
          LET ins == AmdL1Instruction(l1_cache)
              dat == AmdL1Data(l1_cache)
          IN  /\ queries' = Append(queries, Query(LeafAmdL1, 0, l1_cache))
              /\ IF debug /\ (ins.overflow \/ dat.overflow)
                 THEN /\ status' = "panic_overflow"
                      /\ UNCHANGED <<pc, l1_cache_data, l1_cache_instruction>>
                 ELSE /\ l1_cache_instruction' = ins.cache
                      /\ l1_cache_data' = dat.cache
                      /\ pc' = "amd_l2_l3"
                      /\ UNCHANGED status
    /\ UNCHANGED <<windows, debug, vendor, device, i, l2_cache, l3_cache,
                   logical_cores, physical_cores, length, num_infos, written,
                   infos, bits_in, bits_out>>

\* Vendor::AMD arm, leaf 0x80000006
AmdL2L3 ==
    /\ pc = "amd_l2_l3"
    /\ status = "running"
    /\ \E l2_l3_cache \in AmdL2L3Results :
          LET l2 == AmdL2(l2_l3_cache)
              l3 == AmdL3(l2_l3_cache)
          IN  /\ queries' = Append(queries, Query(LeafAmdL2L3, 0, l2_l3_cache))
              /\ IF debug /\ (l2.overflow \/ l3.overflow)
                 THEN /\ status' = "panic_overflow"
                      /\ UNCHANGED <<pc, l2_cache, l3_cache>>
                 ELSE /\ l2_cache' = l2.cache
                      /\ l3_cache' = l3.cache
                      /\ pc' = "return"
                      /\ UNCHANGED status
    /\ UNCHANGED <<windows, debug, vendor, device, i, l1_cache_data,
                   l1_cache_instruction, logical_cores, physical_cores, length,
                   num_infos, written, infos, bits_in, bits_out>>

\* Vendor::Intel arm: one iteration of the loop over leaf 4
IntelLeaf ==
    /\ pc = "match"
    /\ vendor = "Intel"
    /\ status = "running"
    /\ i <= MaxSubLeaf
    /\ \E cache \in (IF i < MaxSubLeaf THEN Leaf4Results ELSE Leaf4Terminators) :
          LET ty         == IntelType(cache)
              level      == IntelLevel(cache)
              properties == IntelProperties(cache)
              slot       == IntelSlot(ty, level)
              put(name, old) == IF slot = name THEN properties.cache ELSE old
          IN  /\ queries' = Append(queries, Query(Leaf4, i, cache))
              /\ IF ty = Zero32
                 THEN /\ pc' = "return"
                      /\ UNCHANGED <<status, i, l1_cache_data, l1_cache_instruction,
                                     l2_cache, l3_cache>>
                 ELSE IF debug /\ properties.overflow
                 THEN /\ status' = "panic_overflow"
                      /\ UNCHANGED <<pc, i, l1_cache_data, l1_cache_instruction,
                                     l2_cache, l3_cache>>
                 ELSE /\ i' = i + 1
                      /\ l1_cache_data' = put("l1_cache_data", l1_cache_data)
                      /\ l1_cache_instruction' =
                            put("l1_cache_instruction", l1_cache_instruction)
                      /\ l2_cache' = put("l2_cache", l2_cache)
                      /\ l3_cache' = put("l3_cache", l3_cache)
                      /\ UNCHANGED <<pc, status>>
    /\ UNCHANGED <<windows, debug, vendor, device, logical_cores, physical_cores,
                   length, num_infos, written, infos, bits_in, bits_out>>

\* Vendor::Unknown arm
UnknownArm ==
    /\ pc = "match"
    /\ vendor = "Unknown"
    /\ status = "running"
    /\ l1_cache_data' = DefaultCache
    /\ l1_cache_instruction' = DefaultCache
    /\ l2_cache' = DefaultCache
    /\ l3_cache' = DefaultCache
    /\ pc' = "return"
    /\ UNCHANGED <<windows, debug, status, queries, vendor, device, i,
                   logical_cores, physical_cores, length, num_infos, written,
                   infos, bits_in, bits_out>>

\* the size-discovery call, the assertion on its length, and the allocation
WinSizeQuery ==
    /\ pc = "win_size"
    /\ status = "running"
    /\ \E len \in WinLengths :
          /\ length' = len
          /\ IF len % InfoSize # 0
             THEN status' = "panic_assert" /\ UNCHANGED <<pc, num_infos>>
             ELSE num_infos' = len \div InfoSize /\ pc' = "win_fill"
                  /\ UNCHANGED status
    /\ UNCHANGED <<windows, debug, queries, vendor, device, i, l1_cache_data,
                   l1_cache_instruction, l2_cache, l3_cache, logical_cores,
                   physical_cores, written, infos, bits_in, bits_out>>

\* the populating call and infos.set_len(num_infos): the OS now has `recs`
\* to report; it writes them when they fit the buffer and nothing otherwise,
\* and sets the length to what they need
WinFill ==
    /\ pc = "win_fill"
    /\ status = "running"
    /\ \E n \in {m \in {num_infos - 1, num_infos, num_infos + 1} : m \in 0..MaxInfos} :
       \E recs \in SeqsOf(WinRecords, IF n <= num_infos THEN n ELSE 0) :
       \E rest \in SeqsOf(UninitRecords, num_infos - Len(recs)) :
          /\ length' = n * InfoSize
          /\ written' = Len(recs)
          /\ infos' = recs \o rest
    /\ pc' = "win_walk"
    /\ UNCHANGED <<windows, debug, status, queries, vendor, device, i,
                   l1_cache_data, l1_cache_instruction, l2_cache, l3_cache,
                   logical_cores, physical_cores, num_infos, bits_in, bits_out>>

\* for info in infos { ... } and the three divisions after it
WinNormalize ==
    /\ pc = "win_walk"
    /\ status = "running"
    /\ \E acc \in {Walk(infos, Len(infos))} :
           /\ infos' = << >>
           /\ IF debug /\ acc.overflow
              THEN /\ status' = "panic_overflow"
                   /\ UNCHANGED <<pc, logical_cores, physical_cores, l1_cache_data,
                                  l1_cache_instruction, l2_cache, l3_cache>>
              ELSE /\ logical_cores' = acc.logical_cores
                   /\ physical_cores' = acc.physical_cores
                   /\ l3_cache' = acc.l3_cache
                   /\ IF acc.physical_cores = 0
                      THEN /\ status' = "panic_div_zero"
                           /\ l1_cache_instruction' = acc.l1_cache_instruction
                           /\ l1_cache_data' = acc.l1_cache_data
                           /\ l2_cache' = acc.l2_cache
                           /\ UNCHANGED pc
                      ELSE /\ l1_cache_instruction' =
                                 PerCore(acc.l1_cache_instruction, acc.physical_cores)
                           /\ l1_cache_data' =
                                 PerCore(acc.l1_cache_data, acc.physical_cores)
                           /\ l2_cache' = PerCore(acc.l2_cache, acc.physical_cores)
                           /\ pc' = "vendor"
                           /\ UNCHANGED status
    /\ UNCHANGED <<windows, debug, queries, vendor, device, i, length, num_infos,
                   written, bits_in, bits_out>>

\* PhysicalDeviceProperties { vendor, device, logical_cores, ... }
Return ==
    /\ pc = "return"
    /\ status = "running"
    /\ IF windows
       THEN UNCHANGED <<logical_cores, physical_cores>>
       ELSE logical_cores' \in CoreCounts /\ physical_cores' \in CoreCounts
    /\ status' = "returned"
    /\ pc' = "done"
    /\ UNCHANGED <<windows, debug, queries, vendor, device, i, l1_cache_data,
                   l1_cache_instruction, l2_cache, l3_cache, length, num_infos,
                   written, infos, bits_in, bits_out>>

Next ==
    \/ CpuidVendor
    \/ NameLeaf
    \/ AmdL1
    \/ AmdL2L3
    \/ IntelLeaf
    \/ UnknownArm
    \/ WinSizeQuery
    \/ WinFill
    \/ WinNormalize
    \/ Return

Spec == Init /\ [][Next]_vars

-----------------------------------------------------------------------------
(* Direct calls of extract_bits on valid ranges                            *)

ExtractValues == { U(0), U(1), <<255, 255, 255, 255>>, <<120, 86, 52, 146>>,
                   <<0, 0, 0, 128>>, U(2147483647) }

InitExtract ==
    /\ windows = FALSE
    /\ debug \in BOOLEAN
    /\ pc = "extract_bits"
    /\ Idle
    /\ bits_in \in { [v |-> v, start |-> s, end |-> e] :
                        v \in ExtractValues, s \in 0..31, e \in 1..32 }
    /\ bits_in.start < bits_in.end
    /\ bits_out = NoCall

CallExtract ==
    /\ pc = "extract_bits"
    /\ ~bits_out.called
    /\ LET r == extract_bits(bits_in.v, bits_in.start, bits_in.end)
       IN  bits_out' = [called |-> TRUE, panic |-> r.panic, val |-> r.val]
    /\ UNCHANGED <<windows, debug, pc, status, queries, vendor, device, i,
                   l1_cache_data, l1_cache_instruction, l2_cache, l3_cache,
                   logical_cores, physical_cores, length, num_infos, written,
                   infos, bits_in>>

NextExtract == CallExtract

SpecExtract == InitExtract /\ [][NextExtract]_vars

-----------------------------------------------------------------------------
(* Properties                                                              *)

Returned == status = "returned"

Sentinel(c) == c.size = <<0, 0, 0, 0>> /\ c.line_size = <<0, 0, 0, 0>>

Positive(v) == \E k \in 1..Len(v) : v[k] > 0

Slots == <<l1_cache_data, l1_cache_instruction, l2_cache, l3_cache>>

\* the result of the first query of the given leaf
ResultOf(leaf) ==
    LET qs == SelectSeq(queries, LAMBDA q : q.leaf = leaf) IN qs[1].res

Asked(leaf) == \E k \in 1..Len(queries) : queries[k].leaf = leaf

\* type code and level of a leaf-4 result, read off the low byte of EAX
TypeCode(r) == r.eax[1] % 32

LevelCode(r) == (r.eax[1] \div 32) % 8

\* C1: on every valid range [start, end) extract_bits returns, without
\* panicking, the bits start..end-1 of v right-aligned, i.e.
\* (v >> start) & ((1 << (end - start)) - 1) in unbounded arithmetic; for
\* the full range 0..32 that is v itself.
ExtractBitsExact ==
    bits_out.called =>
        /\ ~bits_out.panic
        /\ \A j \in 0..31 :
              BitOf(bits_out.val, j) =
                  IF j < bits_in.end - bits_in.start
                  THEN BitOf(bits_in.v, j + bits_in.start)
                  ELSE 0

\* The same statement for the ranges narrower than the whole register, the
\* only ones system() asks for.
ExtractBitsExactBelow32 ==
    (bits_in.end - bits_in.start < 32) => ExtractBitsExact

CacheRecordsAllOrNothing ==
    Returned =>
        \A k \in 1..4 :
            \/ Sentinel(Slots[k])
            \/ Positive(Slots[k].size) /\ Positive(Slots[k].line_size)

\* C3 as amended: on the Intel leaf walk every returned cache record is the
\* zero sentinel or has line_size > 0, and size > 0 as well when overflow
\* checks are compiled in.
IntelRecordsPopulated ==
    (Returned /\ ~windows /\ vendor = "Intel") =>
        \A k \in 1..4 :
            \/ Sentinel(Slots[k])
            \/ /\ Positive(Slots[k].line_size)
               /\ debug => Positive(Slots[k].size)

IntelRecordsReturned ==
    /\ Returned
    /\ ~windows
    /\ vendor = "Intel"
    /\ debug
    /\ Positive(l1_cache_data.size)
    /\ Positive(l3_cache.size)
    /\ Sentinel(l2_cache)

Leaf4Queries == SelectSeq(queries, LAMBDA q : q.leaf = <<4, 0, 0, 0>>)

\* C4: the leaf-4 walk asks for the sub-leaves 0, 1, 2, ... in this order,
\* asks for nothing after the first result whose type code is 0, and has
\* decoded exactly the entries before that result when it returns.
IntelWalkStopsAtTerminator ==
    LET qs == Leaf4Queries
    IN  /\ \A k \in 1..Len(qs) : qs[k].sub = k - 1
        /\ \A k \in 1..(Len(qs) - 1) : TypeCode(qs[k].res) # 0
        /\ (~windows /\ vendor = "Intel" /\ pc \in {"return", "done"}) =>
              /\ Len(qs) >= 1
              /\ TypeCode(qs[Len(qs)].res) = 0
              /\ i = Len(qs) - 1

IntelOneEntryThenTerminator ==
    /\ Returned
    /\ ~windows
    /\ vendor = "Intel"
    /\ Len(Leaf4Queries) = 2
    /\ TypeCode(Leaf4Queries[1].res) = 1
    /\ LevelCode(Leaf4Queries[1].res) = 1
    /\ TypeCode(Leaf4Queries[2].res) = 0
    /\ Leaf4Queries[2].res.ebx # <<0, 0, 0, 0>>
    /\ i = 1
    /\ ~Sentinel(l1_cache_data)
    /\ Sentinel(l1_cache_instruction) /\ Sentinel(l2_cache) /\ Sentinel(l3_cache)

\* C5: a decoded leaf-4 entry with (type, level) = (1,1) replaces L1-data,
\* (2,1) L1-instruction, (3,2) L2 and (3,3) L3 by the entry's record, and
\* every other slot keeps its value; an entry with any other pair changes
\* no slot.
IntelDispatchFrame ==
    [][ (pc = "match" /\ vendor = "Intel" /\ i' = i + 1) =>
          LET e  == queries'[Len(queries')].res
              tl == <<TypeCode(e), LevelCode(e)>>
              p  == IntelProperties(e).cache
              to(pair, old) == IF tl = pair THEN p ELSE old
          IN  /\ l1_cache_data' = to(<<1, 1>>, l1_cache_data)
              /\ l1_cache_instruction' = to(<<2, 1>>, l1_cache_instruction)
              /\ l2_cache' = to(<<3, 2>>, l2_cache)
              /\ l3_cache' = to(<<3, 3>>, l3_cache) ]_vars

IntelInvalidPairIgnored ==
    /\ pc = "match"
    /\ vendor = "Intel"
    /\ status = "running"
    /\ i = 2
    /\ TypeCode(queries[Len(queries)].res) = 1
    /\ LevelCode(queries[Len(queries)].res) = 2
    /\ ~Sentinel(l1_cache_data)
    /\ Sentinel(l2_cache)

\* C6: the vendor is Intel exactly when the leaf-0 registers EBX, EDX, ECX
\* are the little-endian words of "Genu", "ineI", "ntel", AMD exactly when
\* they are those of "Auth", "enti", "cAMD", and Unknown otherwise.
VendorFromLeaf0 ==
    (pc # "vendor" /\ Asked(<<0, 0, 0, 0>>)) =>
        LET r == ResultOf(<<0, 0, 0, 0>>)
            intel == r.ebx = U(1970169159) /\ r.edx = U(1231384169)
                        /\ r.ecx = U(1818588270)
            amd   == r.ebx = U(1752462657) /\ r.edx = U(1769238117)
                        /\ r.ecx = U(1145913699)
        IN  /\ vendor = "Intel" <=> intel
            /\ vendor = "AMD" <=> amd
            /\ vendor = "Unknown" <=> ~intel /\ ~amd

VendorIntelDetected ==
    /\ vendor = "Intel"
    /\ Asked(<<0, 0, 0, 0>>)
    /\ ResultOf(<<0, 0, 0, 0>>).ebx = <<71, 101, 110, 117>>
    /\ ResultOf(<<0, 0, 0, 0>>).edx = <<105, 110, 101, 73>>
    /\ ResultOf(<<0, 0, 0, 0>>).ecx = <<110, 116, 101, 108>>

\* C7: once leaf 0x80000005 is decoded, L1-data is {ECX[31:24] * 1024,
\* ECX[7:0]} and L1-instruction is {EDX[31:24] * 1024, EDX[7:0]}, up to and
\* including the returned structure; ECX = 0x20 << 24 | 0x40 and
\* EDX = 0x10 << 24 | 0x20 give {32768, 64} and {16384, 32}.
AmdL1Decoded ==
    (~windows /\ vendor = "AMD" /\ pc \in {"amd_l2_l3", "return", "done"}) =>
        LET r == ResultOf(<<5, 0, 0, 128>>)
        IN  /\ l1_cache_data = Cache(U(r.ecx[4] * 1024), <<r.ecx[1], 0, 0, 0>>)
            /\ l1_cache_instruction =
                  Cache(U(r.edx[4] * 1024), <<r.edx[1], 0, 0, 0>>)
            /\ (r.ecx = U(536870976) /\ r.edx = U(268435488)) =>
                  /\ l1_cache_data = Cache(U(32768), U(64))
                  /\ l1_cache_instruction = Cache(U(16384), U(32))

AmdL1ExampleReturned ==
    /\ Returned
    /\ ~windows
    /\ vendor = "AMD"
    /\ ResultOf(<<5, 0, 0, 128>>).ecx = U(536870976)
    /\ ResultOf(<<5, 0, 0, 128>>).edx = U(268435488)
    /\ l1_cache_data = Cache(U(32768), U(64))
    /\ l1_cache_instruction = Cache(U(16384), U(32))

\* unbounded reference arithmetic on byte limbs, for sums of record sizes
RECURSIVE LimbCarry(_, _, _)
LimbCarry(a, b, k) ==
    IF k = 0 THEN 0 ELSE (a[k] + b[k] + LimbCarry(a, b, k - 1)) \div 256

LimbAdd(a, b) == [k \in 1..Len(a) |-> (a[k] + b[k] + LimbCarry(a, b, k - 1)) % 256]

Widen(v) == v \o <<0, 0>>

\* the records of a sequence that go to one cache slot
Matching(recs, level, type) ==
    { k \in 1..Len(recs) :
        /\ recs[k].Relationship = "RelationCache"
        /\ recs[k].Level = level
        /\ recs[k].Type = type }

RECURSIVE SumSizes(_, _)
SumSizes(recs, ks) ==
    IF ks = {} THEN Widen(<<0, 0, 0, 0>>)
    ELSE LET k == CHOOSE m \in ks : TRUE
         IN  LimbAdd(Widen(recs[k].Size), SumSizes(recs, ks \ {k}))

CoreRecords(recs) ==
    Cardinality({ k \in 1..Len(recs) : recs[k].Relationship = "RelationProcessorCore" })

\* what the claim says the normalizer returns for the records `recs`
NormalizedAsClaimed(recs, cores, l1i, l1d, l2, l3) ==
    /\ cores = CoreRecords(recs)
    /\ Widen(l1i.size) =
          DivLimbs(SumSizes(recs, Matching(recs, 1, "CacheInstruction")), cores)
    /\ Widen(l1d.size) =
          DivLimbs(SumSizes(recs, Matching(recs, 1, "CacheData")), cores)
    /\ Widen(l2.size) =
          DivLimbs(SumSizes(recs, Matching(recs, 2, "CacheUnified")), cores)
    /\ Widen(l3.size) = SumSizes(recs, Matching(recs, 3, "CacheUnified"))

\* C8: for records with at least one ProcessorCore, the normalizer returns
\* physical_cores = the number of ProcessorCore records, L1-instruction,
\* L1-data and L2 sizes = the exact sum of the matching records' sizes
\* divided by physical_cores, and L3 size = the exact undivided sum; the
\* sums are over the set of records, whatever their order.
NormalizerSums ==
    [][ (pc = "win_walk" /\ CoreRecords(infos) > 0) =>
          /\ pc' = "vendor"
          /\ NormalizedAsClaimed(infos, physical_cores', l1_cache_instruction',
                                 l1_cache_data', l2_cache', l3_cache') ]_vars

SumFits(recs, level, type) ==
    LET sum == SumSizes(recs, Matching(recs, level, type))
    IN  sum[5] = 0 /\ sum[6] = 0

\* The same when every slot's exact sum fits 32 bits: the case the unchecked
\* additions handle.
NormalizerSumsWithin32 ==
    [][ (pc = "win_walk" /\ CoreRecords(infos) > 0
            /\ SumFits(infos, 1, "CacheInstruction") /\ SumFits(infos, 1, "CacheData")
            /\ SumFits(infos, 2, "CacheUnified") /\ SumFits(infos, 3, "CacheUnified")) =>
          /\ pc' = "vendor"
          /\ NormalizedAsClaimed(infos, physical_cores', l1_cache_instruction',
                                 l1_cache_data', l2_cache', l3_cache') ]_vars

\* C9: system() aborts only when the normalizer found no ProcessorCore
\* record or a bit-field request was out of range.
OnlyPermittedAborts ==
    status \in {"running", "returned", "panic_div_zero", "panic_bits"}

\* C10: the records treated as initialized after the populating call are
\* never more than that call reported writing.
InitializedWithinWritten ==
    pc = "win_walk" => Len(infos) <= written

====
